---- MODULE Spec2Model ----
(***************************************************************************)
(* Model of package mighty (github.com/icza/mighty): the Myt wrapper       *)
(* around a testing.TB, its assertion methods Eq / Neq / Deq / Near, their *)
(* curried forms ExpEq / ExpNeq / ExpDeq / ExpNear, the package-level      *)
(* factories returning method values, and the NearFunc predicate.          *)
(*                                                                         *)
(* A reporter (testing.TB) is observed the way the test double TBMock      *)
(* observes it: by the number of Errorf calls it has received.             *)
(***************************************************************************)
EXTENDS Integers, Sequences, FiniteSets, TLC

(***************************************************************************)
(* Bounds of the model.                                                    *)
(***************************************************************************)
\* most assertion calls in a sequence of calls around a kept closure
MaxCalls == 3
\* longest variadic errs... list a caller passes
MaxErrs == 2
\* a reporter takes further assertion calls while errCalls is below this
MaxErrCalls == 1
\* largest finite float64 magnitude of the modelled float format
MaxFloat == 2

(***************************************************************************)
(* interface{} values.  A value is its dynamic type and its payload; the   *)
(* nil interface has no dynamic type.  Payloads are sequences of integers  *)
(* (one element for a scalar, the elements for a slice).                   *)
(***************************************************************************)
NilVal == [t |-> "nil", v |-> << >>]

IntVal(n) == [t |-> "int", v |-> <<n>>]

Int64Val(n) == [t |-> "int64", v |-> <<n>>]

StrVal(c) == [t |-> "string", v |-> <<c>>]

SliceVal(s) == [t |-> "[]int", v |-> s]

\* the values of the test tables (1, 2, "3", []int{1, 2}, []int{2, 2}), nil,
\* and an int64 constant with the payload of int 1
Values ==
    { NilVal, IntVal(1), IntVal(2), Int64Val(1), StrVal(3),
      SliceVal(<<1, 2>>), SliceVal(<<2, 2>>) }

\* reflect.TypeOf(x): the dynamic type, nil for the nil interface
TypeOf(x) == x.t

\* Go's comparable types: slices (like maps and funcs) are not comparable
Comparable(t) == t # "[]int"

\* exp == got on two interface{} values (Go spec, Comparison operators):
\* equal iff identical dynamic types and equal dynamic values; comparing two
\* values of one identical non-comparable type is a run-time panic
InterfaceEq(x, y) ==
    IF TypeOf(x) # TypeOf(y) THEN "false"
    ELSE IF ~Comparable(TypeOf(x)) THEN "panic"
    ELSE IF x.v = y.v THEN "true" ELSE "false"

\* reflect.DeepEqual(x, y): values of distinct types are never deeply equal;
\* slices are compared element by element; never panics
DeepEqual(x, y) ==
    IF TypeOf(x) # TypeOf(y) THEN "false"
    ELSE IF Len(x.v) # Len(y.v) THEN "false"
    ELSE IF \A i \in 1..Len(x.v) : x.v[i] = y.v[i] THEN "true" ELSE "false"

(***************************************************************************)
(* error values and the variadic errs ...error list                        *)
(***************************************************************************)
NilErr == "nil"

TestErr == "test error"

Errors == {NilErr, TestErr}

ErrLists == UNION { [1..n -> Errors] : n \in 0..MaxErrs }

\* getErr with a scan for any non-nil element instead of errs[0]
getErrAnyNonNil(errs) ==
    IF \E i \in 1..Len(errs) : errs[i] # NilErr
    THEN errs[CHOOSE i \in 1..Len(errs) :
                /\ errs[i] # NilErr
                /\ \A j \in 1..(i - 1) : errs[j] = NilErr]
    ELSE NilErr

\* getErr(errs ...error) error
getErr(errs) ==
    IF Len(errs) > 0 /\ errs[1] # NilErr THEN errs[1] ELSE NilErr

(***************************************************************************)
(* float64.  Finite values are the integers -MaxFloat..MaxFloat (all       *)
(* exactly representable, so a difference is exact unless it overflows);   *)
(* a finite result beyond MaxFloat overflows to the infinity of its sign,  *)
(* as IEEE 754 arithmetic does beyond math.MaxFloat64.                     *)
(***************************************************************************)
Fin(n) == [k |-> "fin", n |-> n]

PosInf == [k |-> "+Inf", n |-> 0]

NegInf == [k |-> "-Inf", n |-> 0]

NaN == [k |-> "NaN", n |-> 0]

Floats == { Fin(n) : n \in (0 - MaxFloat)..MaxFloat } \cup {PosInf, NegInf, NaN}

\* a == b on float64: NaN equals nothing, itself included
FEq(a, b) == a.k # "NaN" /\ b.k # "NaN" /\ a = b

\* a < b on float64: false when either operand is NaN
FLt(a, b) ==
    IF a.k = "NaN" \/ b.k = "NaN" THEN FALSE
    ELSE IF a.k = "+Inf" \/ b.k = "-Inf" THEN FALSE
    ELSE IF a.k = "-Inf" \/ b.k = "+Inf" THEN TRUE
    ELSE a.n < b.n

\* a - b on float64
FSub(a, b) ==
    IF a.k = "NaN" \/ b.k = "NaN" THEN NaN
    ELSE IF a.k # "fin" THEN (IF b.k = a.k THEN NaN ELSE a)
    ELSE IF b.k = "+Inf" THEN NegInf
    ELSE IF b.k = "-Inf" THEN PosInf
    ELSE IF a.n - b.n > MaxFloat THEN PosInf
    ELSE IF a.n - b.n < 0 - MaxFloat THEN NegInf
    ELSE Fin(a.n - b.n)

\* math.Abs(x)
FAbs(x) ==
    IF x.k = "NaN" THEN NaN
    ELSE IF x.k # "fin" THEN PosInf
    ELSE IF x.n < 0 THEN Fin(0 - x.n) ELSE x

\* NearFunc with the quick check done on the bit patterns of a and b
NearFuncBitwise(a, b, eps) ==
    IF a = b THEN TRUE ELSE FLt(FAbs(FSub(a, b)), eps)

\* NearFunc without the quick check
NearFuncNoQuickCheck(a, b, eps) == FLt(FAbs(FSub(a, b)), eps)

\* NearFunc comparing the difference with <= instead of <
NearFuncLe(a, b, eps) ==
    IF FEq(a, b) THEN TRUE
    ELSE FLt(FAbs(FSub(a, b)), eps) \/ FEq(FAbs(FSub(a, b)), eps)

\* func NearFunc(a, b, eps float64) bool
NearFunc(a, b, eps) ==
    IF FEq(a, b) THEN TRUE ELSE FLt(FAbs(FSub(a, b)), eps)

\* a nearness function a caller may assign to NearLogic: exact equality
NearExact(a, b, eps) == FEq(a, b)

\* the functions NearLogic may hold
NearLogics == {"NearFunc", "NearExact"}

\* NearLogic(a, b, eps): a call through the function variable holding f
ApplyNearLogic(f, a, b, eps) ==
    IF f = "NearFunc" THEN NearFunc(a, b, eps) ELSE NearExact(a, b, eps)

(***************************************************************************)
(* Reporters, wrappers, recorded messages and call outcomes                *)
(***************************************************************************)
\* the testing.TB values handed to the package
TBs == {"tb1", "tb2"}

\* Myt{tb}: the wrapper embeds exactly one testing.TB
Myt(tb) == [TB |-> tb]

\* one m.Errorf(format, ...) call: the format used and the error printed
Msg(format, err) == [format |-> format, err |-> err]

\* what one call did: the reporter it notified, the Errorf calls in order,
\* and whether it left by a run-time panic instead of returning
Outcome(tb, msgs, panicked) == [tb |-> tb, msgs |-> msgs, panicked |-> panicked]

(***************************************************************************)
(* Myt.expEqDeq and the func literal it returns                            *)
(***************************************************************************)
\* func (m Myt) expEqDeq(exp interface{}, deep bool): the returned closure
\* captures m, exp and deep
expEqDeq(m, exp, deep) == [fn |-> "expEqDeq.func1", m |-> m, exp |-> exp, deep |-> deep]

\* the closure body with the type note guarded by !eq alone
expEqDeqBodyNoNilCheck(c, got, errs) ==
    LET err == getErr(errs)
        eq == IF c.deep THEN DeepEqual(c.exp, got) ELSE InterfaceEq(c.exp, got)
        primary == IF err = NilErr THEN Msg("Expected", NilErr)
                   ELSE Msg("Expected+error", err)
        typeNote == IF eq = "false" /\ TypeOf(c.exp) # TypeOf(got)
                    THEN << Msg("TypesMismatch", NilErr) >>
                    ELSE << >>
    IN  IF eq = "panic" THEN Outcome(c.m.TB, << >>, TRUE)
        ELSE IF eq = "true" /\ err = NilErr THEN Outcome(c.m.TB, << >>, FALSE)
        ELSE Outcome(c.m.TB, <<primary>> \o typeNote, FALSE)

\* func(got interface{}, errs ...error) returned by expEqDeq
expEqDeqBody(c, got, errs) ==
    LET err == getErr(errs)
        eq == IF c.deep THEN DeepEqual(c.exp, got) ELSE InterfaceEq(c.exp, got)
        primary == IF err = NilErr THEN Msg("Expected", NilErr)
                   ELSE Msg("Expected+error", err)
        typeNote == IF /\ eq = "false"
                       /\ c.exp # NilVal
                       /\ got # NilVal
                       /\ TypeOf(c.exp) # TypeOf(got)
                    THEN << Msg("TypesMismatch", NilErr) >>
                    ELSE << >>
    IN  IF eq = "panic" THEN Outcome(c.m.TB, << >>, TRUE)
        ELSE IF eq = "true" /\ err = NilErr THEN Outcome(c.m.TB, << >>, FALSE)
        ELSE Outcome(c.m.TB, <<primary>> \o typeNote, FALSE)

(***************************************************************************)
(* Myt.ExpNeq and the func literal it returns                              *)
(***************************************************************************)
\* the closure body returning early when v1 != v2 OR err == nil
ExpNeqBodyOr(c, v2, errs) ==
    LET err == getErr(errs)
        eq == InterfaceEq(c.v1, v2)
    IN  IF eq = "panic" THEN Outcome(c.m.TB, << >>, TRUE)
        ELSE IF eq = "false" \/ err = NilErr THEN Outcome(c.m.TB, << >>, FALSE)
        ELSE Outcome(c.m.TB, << Msg("Mismatch+error", err) >>, FALSE)

\* the closure body with the type note of expEqDeq pasted after the message
ExpNeqBodyTypeNote(c, v2, errs) ==
    LET err == getErr(errs)
        eq == InterfaceEq(c.v1, v2)
        primary == IF err = NilErr THEN Msg("Mismatch", NilErr)
                   ELSE Msg("Mismatch+error", err)
        typeNote == IF /\ eq = "false"
                       /\ c.v1 # NilVal
                       /\ v2 # NilVal
                       /\ TypeOf(c.v1) # TypeOf(v2)
                    THEN << Msg("TypesMismatch", NilErr) >>
                    ELSE << >>
    IN  IF eq = "panic" THEN Outcome(c.m.TB, << >>, TRUE)
        ELSE IF eq = "false" /\ err = NilErr THEN Outcome(c.m.TB, << >>, FALSE)
        ELSE Outcome(c.m.TB, <<primary>> \o typeNote, FALSE)

\* func(v2 interface{}, errs ...error) returned by Myt.ExpNeq
ExpNeqBody(c, v2, errs) ==
    LET err == getErr(errs)
        eq == InterfaceEq(c.v1, v2)
    IN  IF eq = "panic" THEN Outcome(c.m.TB, << >>, TRUE)
        ELSE IF eq = "false" /\ err = NilErr THEN Outcome(c.m.TB, << >>, FALSE)
        ELSE IF err = NilErr
             THEN Outcome(c.m.TB, << Msg("Mismatch", NilErr) >>, FALSE)
             ELSE Outcome(c.m.TB, << Msg("Mismatch+error", err) >>, FALSE)

\* func (m Myt) ExpNeq(v1 interface{}): the closure captures m and v1
MytExpNeq(m, v1) == [fn |-> "ExpNeq.func1", m |-> m, v1 |-> v1]

(***************************************************************************)
(* Myt.ExpNear and the func literal it returns                             *)
(***************************************************************************)
\* func(got float64, errs ...error) returned by Myt.ExpNear; nl is the
\* function NearLogic holds when the closure runs
ExpNearBody(c, got, errs, nl) ==
    LET err == getErr(errs)
    IN  IF err = NilErr /\ ApplyNearLogic(nl, c.exp, got, c.eps)
        THEN Outcome(c.m.TB, << >>, FALSE)
        ELSE IF err = NilErr
             THEN Outcome(c.m.TB, << Msg("Near", NilErr) >>, FALSE)
             ELSE Outcome(c.m.TB, << Msg("Near+error", err) >>, FALSE)

\* func (m Myt) ExpNear(exp, eps float64): the closure captures m, exp, eps
MytExpNear(m, exp, eps) == [fn |-> "ExpNear.func1", m |-> m, exp |-> exp, eps |-> eps]

(***************************************************************************)
(* The curried methods, and calling what they return                       *)
(***************************************************************************)
\* func (m Myt) ExpEq(exp interface{})
MytExpEq(m, exp) == expEqDeq(m, exp, FALSE)

\* ExpDeq passing deep = false to expEqDeq
MytExpDeqShallow(m, exp) == expEqDeq(m, exp, FALSE)

\* func (m Myt) ExpDeq(exp interface{})
MytExpDeq(m, exp) == expEqDeq(m, exp, TRUE)

\* c(got, errs...) for a closure c over interface{} values
Invoke(c, got, errs) ==
    IF c.fn = "expEqDeq.func1" THEN expEqDeqBody(c, got, errs)
    ELSE ExpNeqBody(c, got, errs)

\* c(got, errs...) for the closure c of ExpNear
InvokeNear(c, got, errs, nl) == ExpNearBody(c, got, errs, nl)

(***************************************************************************)
(* The direct methods                                                      *)
(***************************************************************************)
\* func (m Myt) Eq(exp, got interface{}, errs ...error)
MytEq(m, exp, got, errs) == Invoke(MytExpEq(m, exp), got, errs)

\* func (m Myt) Deq(exp, got interface{}, errs ...error)
MytDeq(m, exp, got, errs) == Invoke(MytExpDeq(m, exp), got, errs)

\* Myt.Neq delegating to ExpEq instead of ExpNeq
MytNeqViaExpEq(m, v1, v2, errs) == Invoke(MytExpEq(m, v1), v2, errs)

\* func (m Myt) Neq(v1, v2 interface{}, errs ...error)
MytNeq(m, v1, v2, errs) == Invoke(MytExpNeq(m, v1), v2, errs)

\* func (m Myt) Near(exp, got, eps float64, errs ...error)
MytNear(m, exp, got, eps, errs, nl) == InvokeNear(MytExpNear(m, exp, eps), got, errs, nl)

(***************************************************************************)
(* The package-level functions: each returns method values of Myt{tb}      *)
(***************************************************************************)
\* a method value: the method and the receiver it is bound to
MethodValue(fn, m) == [fn |-> fn, m |-> m]

\* func Eq(tb testing.TB) Func2ArgsErr
Eq(tb) == MethodValue("Myt.Eq", Myt(tb))

\* Deq returning the method value Myt{tb}.Eq
DeqReturnsEq(tb) == MethodValue("Myt.Eq", Myt(tb))

\* func Deq(tb testing.TB) Func2ArgsErr
Deq(tb) == MethodValue("Myt.Deq", Myt(tb))

\* func Neq(tb testing.TB) Func2ArgsErr
Neq(tb) == MethodValue("Myt.Neq", Myt(tb))

\* func Near(tb testing.TB) Func3FloatsErr
Near(tb) == MethodValue("Myt.Near", Myt(tb))

\* func EqNeq(tb testing.TB) (Func2ArgsErr, Func2ArgsErr)
EqNeq(tb) == LET myt == Myt(tb)
             IN  << MethodValue("Myt.Eq", myt), MethodValue("Myt.Neq", myt) >>

\* func ExpEq(tb testing.TB) Func1ArgFunc1ArgErr
ExpEq(tb) == MethodValue("Myt.ExpEq", Myt(tb))

\* func ExpDeq(tb testing.TB) Func1ArgFunc1ArgErr
ExpDeq(tb) == MethodValue("Myt.ExpDeq", Myt(tb))

\* func ExpNeq(tb testing.TB) Func1ArgFunc1ArgErr
ExpNeq(tb) == MethodValue("Myt.ExpNeq", Myt(tb))

\* func ExpNear(tb testing.TB) Func2FloatsFunc1FloatErr
ExpNear(tb) == MethodValue("Myt.ExpNear", Myt(tb))

\* func EqExpEq(tb testing.TB) (Func2ArgsErr, Func1ArgFunc1ArgErr)
EqExpEq(tb) == LET myt == Myt(tb)
               IN  << MethodValue("Myt.Eq", myt), MethodValue("Myt.ExpEq", myt) >>

\* f(exp, got, errs...) for a method value f of type Func2ArgsErr
Call2(f, exp, got, errs) ==
    IF f.fn = "Myt.Eq" THEN MytEq(f.m, exp, got, errs)
    ELSE IF f.fn = "Myt.Deq" THEN MytDeq(f.m, exp, got, errs)
    ELSE MytNeq(f.m, exp, got, errs)

\* f(exp) for a method value f of type Func1ArgFunc1ArgErr
Call1(f, exp) ==
    IF f.fn = "Myt.ExpEq" THEN MytExpEq(f.m, exp)
    ELSE IF f.fn = "Myt.ExpDeq" THEN MytExpDeq(f.m, exp)
    ELSE MytExpNeq(f.m, exp)

\* f(exp, got, eps, errs...) for a method value f of type Func3FloatsErr
Call3(f, exp, got, eps, errs, nl) == MytNear(f.m, exp, got, eps, errs, nl)

\* f(exp, eps) for a method value f of type Func2FloatsFunc1FloatErr
Call2Floats(f, exp, eps) == MytExpNear(f.m, exp, eps)

(***************************************************************************)
(* The ways a caller reaches each assertion, as call expressions           *)
(***************************************************************************)
EqForms == {"Myt.Eq", "Myt.ExpEq", "Eq", "ExpEq", "EqNeq.eq", "EqExpEq.eq", "EqExpEq.expEq"}

DeqForms == {"Myt.Deq", "Myt.ExpDeq", "Deq", "ExpDeq"}

NeqForms == {"Myt.Neq", "Myt.ExpNeq", "Neq", "ExpNeq", "EqNeq.neq"}

NearForms == {"Myt.Near", "Myt.ExpNear", "Near", "ExpNear"}

\* the outcome of the call expression `form` on reporter tb with arguments
\* (exp, got, errs...)
Perform(form, tb, exp, got, errs) ==
    CASE form = "Myt.Eq" -> MytEq(Myt(tb), exp, got, errs)
      [] form = "Myt.ExpEq" -> Invoke(MytExpEq(Myt(tb), exp), got, errs)
      [] form = "Eq" -> Call2(Eq(tb), exp, got, errs)
      [] form = "ExpEq" -> Invoke(Call1(ExpEq(tb), exp), got, errs)
      [] form = "EqNeq.eq" -> Call2(EqNeq(tb)[1], exp, got, errs)
      [] form = "EqExpEq.eq" -> Call2(EqExpEq(tb)[1], exp, got, errs)
      [] form = "EqExpEq.expEq" -> Invoke(Call1(EqExpEq(tb)[2], exp), got, errs)
      [] form = "Myt.Deq" -> MytDeq(Myt(tb), exp, got, errs)
      [] form = "Myt.ExpDeq" -> Invoke(MytExpDeq(Myt(tb), exp), got, errs)
      [] form = "Deq" -> Call2(Deq(tb), exp, got, errs)
      [] form = "ExpDeq" -> Invoke(Call1(ExpDeq(tb), exp), got, errs)
      [] form = "Myt.Neq" -> MytNeq(Myt(tb), exp, got, errs)
      [] form = "Myt.ExpNeq" -> Invoke(MytExpNeq(Myt(tb), exp), got, errs)
      [] form = "Neq" -> Call2(Neq(tb), exp, got, errs)
      [] form = "ExpNeq" -> Invoke(Call1(ExpNeq(tb), exp), got, errs)
      [] form = "EqNeq.neq" -> Call2(EqNeq(tb)[2], exp, got, errs)

\* the same for the Near family; nl is the function NearLogic holds
PerformNear(form, tb, exp, got, eps, errs, nl) ==
    CASE form = "Myt.Near" -> MytNear(Myt(tb), exp, got, eps, errs, nl)
      [] form = "Myt.ExpNear" -> InvokeNear(MytExpNear(Myt(tb), exp, eps), got, errs, nl)
      [] form = "Near" -> Call3(Near(tb), exp, got, eps, errs, nl)
      [] form = "ExpNear" -> InvokeNear(Call2Floats(ExpNear(tb), exp, eps), got, errs, nl)

(***************************************************************************)
(* getFuncLine: the call stack and the walk over it.  A function name is   *)
(* the sequence of the pieces of its package path, a dot and the name in   *)
(* the package, so that a prefix of the string is a prefix of the sequence.*)
(***************************************************************************)
\* callers := make([]uintptr, 20)
MaxCallers == 20
\* if n < 25 { f(n + 1) } in TestGetFileLineUnknown
TestDepth == 25
\* most frames of the caller's recursive function on a stack
MaxRecursion == 26

\* import paths: this package, a sibling and a sub-package whose paths start
\* with this package's path, a package using mighty, testing and runtime
PkgMighty == << "github.com/icza/mighty" >>

PkgSibling == << "github.com/icza/mighty", "x" >>

PkgSub == << "github.com/icza/mighty", "/sub" >>

PkgUser == << "github.com/icza/bitio" >>

PkgTesting == << "testing" >>

PkgRuntime == << "runtime" >>

\* var packageName = reflect.TypeOf(Myt{}).PkgPath()
packageName == PkgMighty

\* a runtime.Frame: Function (package path-qualified), File and Line
Frame(pkg, name, dir, base, line) ==
    [function |-> pkg \o << ".", name >>, file |-> << dir, base >>, line |-> line]

\* strings.HasPrefix(s, prefix)
HasPrefix(s, prefix) ==
    Len(s) >= Len(prefix) /\ SubSeq(s, 1, Len(prefix)) = prefix

\* filepath.Base(path)
Base(path) == path[Len(path)]

\* the frames of this package on the stack of a failing Eq, innermost
\* first: runtime.Callers, getFuncLine, the closure of expEqDeq and, for the
\* direct form, Myt.Eq
LibraryFrames(form) ==
    << Frame(PkgRuntime, "Callers", "runtime", "extern.go", 325),
       Frame(PkgMighty, "getFuncLine", "mighty", "myt.go", 199),
       Frame(PkgMighty, "Myt.expEqDeq.func1", "mighty", "myt.go", 91) >>
    \o (IF form = "direct"
        THEN << Frame(PkgMighty, "Myt.Eq", "mighty", "myt.go", 23) >>
        ELSE << >>)

\* the frames of the caller: n frames of its recursive function, the
\* innermost one at the line of the assertion, below them the test function
CallerFrames(pkg, n) ==
    [i \in 1..n |-> Frame(pkg, "TestGetFileLineUnknown.func1", "pkg", "myt_test.go",
                          IF i = 1 THEN 186 ELSE 184)]
    \o << Frame(pkg, "TestGetFileLineUnknown", "pkg", "myt_test.go",
                IF n = 0 THEN 186 ELSE 189) >>

\* the outermost frames: a test run by the testing package, or a goroutine
\* started by a go statement
BaseFrames(base) ==
    (IF base = "test"
     THEN << Frame(PkgTesting, "tRunner", "testing", "testing.go", 1689) >>
     ELSE << >>)
    \o << Frame(PkgRuntime, "goexit", "runtime", "asm_amd64.s", 1695) >>

CallerPkgs == {PkgMighty, PkgSibling, PkgSub, PkgUser}

\* no caller's function on the stack
NoPkg == << >>

\* the stack of a failing assertion; caller NoPkg is `go myt.Eq(1, 2)`,
\* the assertion being the function of the go statement
CallStack(form, caller, n, base) ==
    LibraryFrames(form)
    \o (IF caller = NoPkg THEN << >> ELSE CallerFrames(caller, n))
    \o BaseFrames(base)

\* runtime.Callers that fills a slice as long as the stack is deep
CallersUnbounded(skip, stack, max) == SubSeq(stack, skip + 1, Len(stack))

\* runtime.Callers(skip, pc): the frames from `skip` on (0 is Callers
\* itself), as many as pc holds
Callers(skip, stack, max) ==
    LET rest == SubSeq(stack, skip + 1, Len(stack))
    IN  SubSeq(rest, 1, IF Len(rest) < max THEN Len(rest) ELSE max)

\* (*runtime.Frames).Next for the i-th call: the frame, and whether a
\* further call will return a valid frame
FramesNext(callers, i) ==
    IF i > Len(callers)
    THEN [frame |-> Frame(<< >>, "", "", "", 0), more |-> FALSE]
    ELSE [frame |-> callers[i], more |-> i < Len(callers)]

\* what getFuncLine formats when no frame qualifies
UnknownFuncLine == [function |-> << "<unknown_func>" >>, file |-> "<unknown_file>", line |-> 0 - 1]

\* the loop of getFuncLine from its i-th iteration on
RECURSIVE WalkFrames(_, _)
WalkFrames(callers, i) ==
    LET nx == FramesNext(callers, i)
    IN  IF ~nx.more THEN [function |-> << >>, file |-> "", line |-> 0]
        ELSE IF ~HasPrefix(nx.frame.function, packageName)
             THEN [function |-> nx.frame.function,
                   file |-> Base(nx.frame.file),
                   line |-> nx.frame.line]
        ELSE WalkFrames(callers, i + 1)

\* func getFuncLine() string: the values it formats
getFuncLine(stack) ==
    LET callers == Callers(1, stack, MaxCallers)
        found == WalkFrames(callers, 1)
    IN  IF found.function = << >> THEN UnknownFuncLine ELSE found

(***************************************************************************)
(* State                                                                   *)
(***************************************************************************)
VARIABLES
    errCalls,   \* TBMock.errCalls of each reporter: Errorf calls received
    NearLogic,  \* the package variable NearLogic: the function it holds
    pc,         \* the test goroutine: "idle", "returned" or "panicked"
    last,       \* the assertion call just made, its arguments and outcome
    near,       \* a NearFunc evaluation: arguments, and the result once made
    walk,       \* a failing assertion on a given call stack, and what
                \* getFuncLine returned for it
    held        \* a curried closure the caller keeps in a variable, its
                \* invocations, and the calls made next to them

vars == <<errCalls, NearLogic, pc, last, near, walk, held>>

\* float64 arguments of the Near calls: finite values, an infinity and NaN
NearArgs == {Fin(0), Fin(1), PosInf, NaN}

NoCall ==
    [form |-> "none", op |-> "none", tb |-> "tb1",
     exp |-> NilVal, got |-> NilVal,
     fexp |-> Fin(0), fgot |-> Fin(0), feps |-> Fin(0),
     errs |-> << >>, out |-> Outcome("tb1", << >>, FALSE)]

NoNear == [a |-> Fin(0), b |-> Fin(0), eps |-> Fin(0), done |-> FALSE, result |-> FALSE]

NoWalk ==
    [form |-> "direct", caller |-> NoPkg, n |-> 0, base |-> "test",
     stack |-> << >>, done |-> FALSE,
     result |-> [function |-> << >>, file |-> "", line |-> 0], msgs |-> << >>]

\* no closure kept
NoClosure == [fn |-> "none"]

NoInvocation ==
    [valid |-> FALSE, got |-> NilVal, fgot |-> Fin(0), errs |-> << >>,
     nl |-> "NearFunc", out |-> Outcome("tb1", << >>, FALSE)]

\* c: the closure kept; nlBuilt: what NearLogic held when it was built;
\* n: assertion calls made so far; cur, prev: the last two invocations of
\* c; isolated: per reporter, the sum of the counts each call so far
\* records when it is the only call made
NoHeld ==
    [c |-> NoClosure, nlBuilt |-> "NearFunc", n |-> 0,
     cur |-> NoInvocation, prev |-> NoInvocation,
     isolated |-> [tb \in TBs |-> 0]]

\* var NearLogic = NearFunc; a fresh TBMock has errCalls 0
Init ==
    /\ errCalls = [tb \in TBs |-> 0]
    /\ NearLogic = "NearFunc"
    /\ pc = "idle"
    /\ last = NoCall
    /\ near = NoNear
    /\ walk = NoWalk
    /\ held = NoHeld

\* the effect of one assertion call on the state: every Errorf of the call
\* increments errCalls of the reporter it was made on (TBMock.Errorf), and a
\* panic ends the test goroutine
Record(form, op, tb, exp, got, errs, out) ==
    /\ errCalls[tb] < MaxErrCalls
    /\ errCalls' = [errCalls EXCEPT ![out.tb] = @ + Len(out.msgs)]
    /\ pc' = IF out.panicked THEN "panicked" ELSE "returned"
    /\ last' = [NoCall EXCEPT !.form = form, !.op = op, !.tb = tb, !.exp = exp,
                              !.got = got, !.errs = errs, !.out = out]
    /\ UNCHANGED <<NearLogic, near, walk, held>>

RecordNear(form, tb, exp, got, eps, errs, out) ==
    /\ errCalls[tb] < MaxErrCalls
    /\ errCalls' = [errCalls EXCEPT ![out.tb] = @ + Len(out.msgs)]
    /\ pc' = IF out.panicked THEN "panicked" ELSE "returned"
    /\ last' = [NoCall EXCEPT !.form = form, !.op = "Near", !.tb = tb, !.fexp = exp,
                              !.fgot = got, !.feps = eps, !.errs = errs, !.out = out]
    /\ UNCHANGED <<NearLogic, near, walk, held>>

(***************************************************************************)
(* Calls of the methods of Myt{tb}                                         *)
(***************************************************************************)
\* Myt{tb}.Eq(exp, got, errs...)
CallMytEq ==
    /\ pc = "idle"
    /\ \E tb \in TBs, exp \in Values, got \in Values, errs \in ErrLists :
        Record("Myt.Eq", "Eq", tb, exp, got, errs,
               Perform("Myt.Eq", tb, exp, got, errs))

\* Myt{tb}.ExpEq(exp)(got, errs...)
CallMytExpEq ==
    /\ pc = "idle"
    /\ \E tb \in TBs, exp \in Values, got \in Values, errs \in ErrLists :
        Record("Myt.ExpEq", "Eq", tb, exp, got, errs,
               Perform("Myt.ExpEq", tb, exp, got, errs))

\* Myt{tb}.Deq(exp, got, errs...)
CallMytDeq ==
    /\ pc = "idle"
    /\ \E tb \in TBs, exp \in Values, got \in Values, errs \in ErrLists :
        Record("Myt.Deq", "Deq", tb, exp, got, errs,
               Perform("Myt.Deq", tb, exp, got, errs))

\* Myt{tb}.ExpDeq(exp)(got, errs...)
CallMytExpDeq ==
    /\ pc = "idle"
    /\ \E tb \in TBs, exp \in Values, got \in Values, errs \in ErrLists :
        Record("Myt.ExpDeq", "Deq", tb, exp, got, errs,
               Perform("Myt.ExpDeq", tb, exp, got, errs))

\* Myt{tb}.Neq(v1, v2, errs...)
CallMytNeq ==
    /\ pc = "idle"
    /\ \E tb \in TBs, exp \in Values, got \in Values, errs \in ErrLists :
        Record("Myt.Neq", "Neq", tb, exp, got, errs,
               Perform("Myt.Neq", tb, exp, got, errs))

\* Myt{tb}.ExpNeq(v1)(v2, errs...)
CallMytExpNeq ==
    /\ pc = "idle"
    /\ \E tb \in TBs, exp \in Values, got \in Values, errs \in ErrLists :
        Record("Myt.ExpNeq", "Neq", tb, exp, got, errs,
               Perform("Myt.ExpNeq", tb, exp, got, errs))

\* Myt{tb}.Near(exp, got, eps, errs...)
CallMytNear ==
    /\ pc = "idle"
    /\ \E tb \in TBs, exp \in NearArgs, got \in NearArgs, eps \in NearArgs,
          errs \in ErrLists :
        RecordNear("Myt.Near", tb, exp, got, eps, errs,
                   PerformNear("Myt.Near", tb, exp, got, eps, errs, NearLogic))

\* Myt{tb}.ExpNear(exp, eps)(got, errs...)
CallMytExpNear ==
    /\ pc = "idle"
    /\ \E tb \in TBs, exp \in NearArgs, got \in NearArgs, eps \in NearArgs,
          errs \in ErrLists :
        RecordNear("Myt.ExpNear", tb, exp, got, eps, errs,
                   PerformNear("Myt.ExpNear", tb, exp, got, eps, errs, NearLogic))

(***************************************************************************)
(* Calls through the package-level functions                               *)
(***************************************************************************)
\* Eq(tb)(exp, got, errs...)
CallEq ==
    /\ pc = "idle"
    /\ \E tb \in TBs, exp \in Values, got \in Values, errs \in ErrLists :
        Record("Eq", "Eq", tb, exp, got, errs,
               Perform("Eq", tb, exp, got, errs))

\* Deq(tb)(exp, got, errs...)
CallDeq ==
    /\ pc = "idle"
    /\ \E tb \in TBs, exp \in Values, got \in Values, errs \in ErrLists :
        Record("Deq", "Deq", tb, exp, got, errs,
               Perform("Deq", tb, exp, got, errs))

\* Neq(tb)(v1, v2, errs...)
CallNeq ==
    /\ pc = "idle"
    /\ \E tb \in TBs, exp \in Values, got \in Values, errs \in ErrLists :
        Record("Neq", "Neq", tb, exp, got, errs,
               Perform("Neq", tb, exp, got, errs))

\* Near(tb)(exp, got, eps, errs...)
CallNear ==
    /\ pc = "idle"
    /\ \E tb \in TBs, exp \in NearArgs, got \in NearArgs, eps \in NearArgs,
          errs \in ErrLists :
        RecordNear("Near", tb, exp, got, eps, errs,
                   PerformNear("Near", tb, exp, got, eps, errs, NearLogic))

\* eq, _ := EqNeq(tb); eq(exp, got, errs...)
CallEqNeqEq ==
    /\ pc = "idle"
    /\ \E tb \in TBs, exp \in Values, got \in Values, errs \in ErrLists :
        Record("EqNeq.eq", "Eq", tb, exp, got, errs,
               Perform("EqNeq.eq", tb, exp, got, errs))

\* _, neq := EqNeq(tb); neq(v1, v2, errs...)
CallEqNeqNeq ==
    /\ pc = "idle"
    /\ \E tb \in TBs, exp \in Values, got \in Values, errs \in ErrLists :
        Record("EqNeq.neq", "Neq", tb, exp, got, errs,
               Perform("EqNeq.neq", tb, exp, got, errs))

\* ExpEq(tb)(exp)(got, errs...)
CallExpEq ==
    /\ pc = "idle"
    /\ \E tb \in TBs, exp \in Values, got \in Values, errs \in ErrLists :
        Record("ExpEq", "Eq", tb, exp, got, errs,
               Perform("ExpEq", tb, exp, got, errs))

\* ExpDeq(tb)(exp)(got, errs...)
CallExpDeq ==
    /\ pc = "idle"
    /\ \E tb \in TBs, exp \in Values, got \in Values, errs \in ErrLists :
        Record("ExpDeq", "Deq", tb, exp, got, errs,
               Perform("ExpDeq", tb, exp, got, errs))

\* ExpNeq(tb)(v1)(v2, errs...)
CallExpNeq ==
    /\ pc = "idle"
    /\ \E tb \in TBs, exp \in Values, got \in Values, errs \in ErrLists :
        Record("ExpNeq", "Neq", tb, exp, got, errs,
               Perform("ExpNeq", tb, exp, got, errs))

\* ExpNear(tb)(exp, eps)(got, errs...)
CallExpNear ==
    /\ pc = "idle"
    /\ \E tb \in TBs, exp \in NearArgs, got \in NearArgs, eps \in NearArgs,
          errs \in ErrLists :
        RecordNear("ExpNear", tb, exp, got, eps, errs,
                   PerformNear("ExpNear", tb, exp, got, eps, errs, NearLogic))

\* eq, _ := EqExpEq(tb); eq(exp, got, errs...)
CallEqExpEqEq ==
    /\ pc = "idle"
    /\ \E tb \in TBs, exp \in Values, got \in Values, errs \in ErrLists :
        Record("EqExpEq.eq", "Eq", tb, exp, got, errs,
               Perform("EqExpEq.eq", tb, exp, got, errs))

\* _, expEq := EqExpEq(tb); expEq(exp)(got, errs...)
CallEqExpEqExpEq ==
    /\ pc = "idle"
    /\ \E tb \in TBs, exp \in Values, got \in Values, errs \in ErrLists :
        Record("EqExpEq.expEq", "Eq", tb, exp, got, errs,
               Perform("EqExpEq.expEq", tb, exp, got, errs))

(***************************************************************************)
(* The caller's own steps between assertion calls                          *)
(***************************************************************************)
\* the assertion returned: the test function goes on to its next statement
Continue ==
    /\ pc = "returned"
    /\ pc' = "idle"
    /\ last' = NoCall
    /\ UNCHANGED <<errCalls, NearLogic, near, walk, held>>

\* tb.errCalls = 0, as the tests do before each call
ResetErrCalls ==
    \E tb \in TBs :
        /\ pc = "idle"
        /\ errCalls[tb] > 0
        /\ errCalls' = [errCalls EXCEPT ![tb] = 0]
        /\ UNCHANGED <<NearLogic, pc, last, near, walk, held>>

\* NearLogic = f: the caller sets its own nearness function
SetNearLogic ==
    \E f \in NearLogics :
        /\ pc = "idle"
        /\ f # NearLogic
        /\ NearLogic' = f
        /\ UNCHANGED <<errCalls, pc, last, near, walk, held>>

Next ==
    \/ CallMytEq
    \/ CallMytExpEq
    \/ CallMytDeq
    \/ CallMytExpDeq
    \/ CallMytNeq
    \/ CallMytExpNeq
    \/ CallMytNear
    \/ CallMytExpNear
    \/ CallEq
    \/ CallDeq
    \/ CallNeq
    \/ CallNear
    \/ CallEqNeqEq
    \/ CallEqNeqNeq
    \/ CallExpEq
    \/ CallExpDeq
    \/ CallExpNeq
    \/ CallExpNear
    \/ CallEqExpEqEq
    \/ CallEqExpEqExpEq
    \/ Continue
    \/ ResetErrCalls
    \/ SetNearLogic

Spec == Init /\ [][Next]_vars

(***************************************************************************)
(* NearFunc as a pure function: every argument triple is evaluated         *)
(***************************************************************************)
InitNear ==
    /\ errCalls = [tb \in TBs |-> 0]
    /\ NearLogic = "NearFunc"
    /\ pc = "idle"
    /\ last = NoCall
    /\ near \in [a : Floats, b : Floats, eps : Floats, done : {FALSE}, result : {FALSE}]
    /\ walk = NoWalk
    /\ held = NoHeld

\* got := NearLogic(a, b, eps) with the default NearLogic, as TestNearLogic
EvalNearFunc ==
    /\ ~near.done
    /\ near' = [near EXCEPT !.done = TRUE, !.result = NearFunc(near.a, near.b, near.eps)]
    /\ UNCHANGED <<errCalls, NearLogic, pc, last, walk, held>>

NextNear == EvalNearFunc

SpecNear == InitNear /\ [][NextNear]_vars

(***************************************************************************)
(* Vocabulary of the properties                                            *)
(***************************************************************************)
\* an assertion call has just been made and `last` describes it
Called == pc # "idle"

\* the number of Errorf notifications the call made
Count == Len(last.out.msgs)

\* the optional cause of the call: present and non-nil
HasCause(errs) == Len(errs) > 0 /\ errs[1] # NilErr

\* the cause list reduced to the one element that is consulted
FirstOnly(errs) == IF HasCause(errs) THEN << errs[1] >> ELSE << >>

\* the comparison predicate of the operation holds of the call's arguments
PredicateHolds ==
    CASE last.op = "Eq" -> InterfaceEq(last.exp, last.got) = "true"
      [] last.op = "Neq" -> InterfaceEq(last.exp, last.got) = "false"
      [] last.op = "Deq" -> DeepEqual(last.exp, last.got) = "true"
      [] last.op = "Near" -> ApplyNearLogic(NearLogic, last.fexp, last.fgot, last.feps)
      [] OTHER -> FALSE

\* unequal, both non-nil and of different dynamic types
TypeMismatch(exp, got) ==
    /\ InterfaceEq(exp, got) = "false"
    /\ exp # NilVal
    /\ got # NilVal
    /\ TypeOf(exp) # TypeOf(got)

FormsOf(op) ==
    CASE op = "Eq" -> EqForms
      [] op = "Deq" -> DeqForms
      [] op = "Neq" -> NeqForms
      [] OTHER -> NearForms

\* the outcome the call expression `form` has on the arguments of `last`
OutcomeOfForm(form, errs) ==
    IF last.op = "Near"
    THEN PerformNear(form, last.tb, last.fexp, last.fgot, last.feps, errs, NearLogic)
    ELSE Perform(form, last.tb, last.exp, last.got, errs)

(***************************************************************************)
(* C1: an assertion call (Eq, Neq, Deq, Near) records no failure on the    *)
(* reporter if and only if its comparison predicate holds and the cause is *)
(* absent or nil, for every expected value, actual value and cause.        *)
(***************************************************************************)
C1_SilentIffPredicateAndNoCause ==
    Called => (Count = 0 <=> (PredicateHolds /\ ~HasCause(last.errs)))

(***************************************************************************)
(* C2, as claimed: a single call makes 0 or 1 Errorf notifications.        *)
(***************************************************************************)
C2_AtMostOneErrorf == Called => Count \in {0, 1}

(***************************************************************************)
(* C2, amended: a call that is not silent records exactly one primary      *)
(* failure, followed for Eq and Deq by at most one type-mismatch note: a   *)
(* single call makes 0, 1 or 2 Errorf notifications, at most 1 for Neq and *)
(* Near, and a second one is always the type-mismatch note.                *)
(***************************************************************************)
C2_OnePrimaryPlusOptionalNote ==
    Called =>
        /\ Count \in {0, 1, 2}
        /\ last.op \in {"Neq", "Near"} => Count \in {0, 1}
        /\ Count >= 1 => last.out.msgs[1].format # "TypesMismatch"
        /\ Count = 2 => last.out.msgs[2].format = "TypesMismatch"

C2_Witness ==
    /\ pc = "returned"
    /\ last.op = "Deq"
    /\ Count = 2
    /\ last.out.msgs[2].format = "TypesMismatch"

(***************************************************************************)
(* C3: a failing Eq call records the supplementary type-mismatch message   *)
(* (two messages in total) if and only if expected and actual are unequal, *)
(* both non-nil and of different dynamic types, with or without a cause;   *)
(* every other failing Eq call records the primary message alone.          *)
(***************************************************************************)
C3_EqTypeNoteIffMismatch ==
    (Called /\ last.op = "Eq") =>
        /\ Count = 2 <=> TypeMismatch(last.exp, last.got)
        /\ Count = 2 => /\ last.out.msgs[1].format \in {"Expected", "Expected+error"}
                        /\ last.out.msgs[2].format = "TypesMismatch"
        /\ (Count >= 1 /\ ~TypeMismatch(last.exp, last.got)) =>
               /\ Count = 1
               /\ last.out.msgs[1].format \in {"Expected", "Expected+error"}

\* expected = 1, actual = "3", with a cause: two messages
C3_Witness ==
    /\ pc = "returned"
    /\ last.op = "Eq"
    /\ last.exp = IntVal(1)
    /\ last.got = StrVal(3)
    /\ HasCause(last.errs)
    /\ Count = 2

(***************************************************************************)
(* C4, as claimed: with no cause, Eq on an unequal pair records one        *)
(* failure plus a second diagnostic if the dynamic types of the two values *)
(* differ, and Neq records none; on an equal pair Eq records none and Neq  *)
(* exactly one.  reflect.TypeOf gives the nil interface the nil type,      *)
(* which differs from every other type.                                    *)
(***************************************************************************)
C4_EqNeqCountsTypesDiffer ==
    (Called /\ ~HasCause(last.errs)) =>
        /\ (last.op = "Eq" /\ InterfaceEq(last.exp, last.got) = "false") =>
               Count = (IF TypeOf(last.exp) # TypeOf(last.got) THEN 2 ELSE 1)
        /\ (last.op = "Neq" /\ InterfaceEq(last.exp, last.got) = "false") => Count = 0
        /\ (last.op = "Eq" /\ InterfaceEq(last.exp, last.got) = "true") => Count = 0
        /\ (last.op = "Neq" /\ InterfaceEq(last.exp, last.got) = "true") => Count = 1

(***************************************************************************)
(* C4, amended: with no cause, Eq on an unequal pair records one failure   *)
(* plus a second diagnostic if both values are non-nil and their dynamic   *)
(* types differ, and Neq records none; on an equal pair Eq records none    *)
(* and Neq exactly one.                                                    *)
(***************************************************************************)
C4_EqNeqCountsNonNilTypesDiffer ==
    (Called /\ ~HasCause(last.errs)) =>
        /\ (last.op = "Eq" /\ InterfaceEq(last.exp, last.got) = "false") =>
               Count = (IF /\ last.exp # NilVal
                           /\ last.got # NilVal
                           /\ TypeOf(last.exp) # TypeOf(last.got)
                        THEN 2 ELSE 1)
        /\ (last.op = "Neq" /\ InterfaceEq(last.exp, last.got) = "false") => Count = 0
        /\ (last.op = "Eq" /\ InterfaceEq(last.exp, last.got) = "true") => Count = 0
        /\ (last.op = "Neq" /\ InterfaceEq(last.exp, last.got) = "true") => Count = 1

\* Eq(nil, 1) with no cause: unequal, one value nil, one message
C4_Witness ==
    /\ pc = "returned"
    /\ last.op = "Eq"
    /\ ~HasCause(last.errs)
    /\ last.exp = NilVal
    /\ last.got = IntVal(1)
    /\ Count = 1

(***************************************************************************)
(* C5: a non-nil cause alone makes the call fail: with a non-nil cause Eq, *)
(* direct or curried, records exactly one failure when expected and actual *)
(* are equal, and Neq records exactly one failure whether its two values   *)
(* are equal or unequal; the failure names the cause.                      *)
(***************************************************************************)
C5_CauseAloneFails ==
    (Called /\ HasCause(last.errs)) =>
        /\ (last.op = "Eq" /\ InterfaceEq(last.exp, last.got) = "true") =>
               /\ Count = 1
               /\ last.out.msgs[1].err = last.errs[1]
        /\ (last.op = "Neq" /\ InterfaceEq(last.exp, last.got) \in {"true", "false"}) =>
               /\ Count = 1
               /\ last.out.msgs[1].err = last.errs[1]

\* the curried ExpEq(1)(1, cause) and one failure
C5_Witness ==
    /\ pc = "returned"
    /\ last.form = "Myt.ExpEq"
    /\ last.exp = IntVal(1)
    /\ last.got = IntVal(1)
    /\ HasCause(last.errs)
    /\ Count = 1

(***************************************************************************)
(* C6: only the first element of the variadic cause list is consulted: a   *)
(* call whose list is empty or starts with nil behaves as a call with no   *)
(* cause, whatever follows, and a call whose list starts with a non-nil    *)
(* element behaves as a call with that cause alone.                        *)
(***************************************************************************)
C6_OnlyFirstCauseConsulted ==
    Called =>
        /\ last.out = OutcomeOfForm(last.form, FirstOnly(last.errs))
        /\ \A i \in 1..Count :
               last.out.msgs[i].err \in
                   {NilErr} \cup (IF HasCause(last.errs) THEN {last.errs[1]} ELSE {})
        /\ (~HasCause(last.errs) /\ PredicateHolds) => Count = 0

\* a silent Eq whose cause list is (nil, non-nil)
C6_Witness ==
    /\ pc = "returned"
    /\ last.op = "Eq"
    /\ Len(last.errs) = 2
    /\ last.errs[1] = NilErr
    /\ last.errs[2] # NilErr
    /\ Count = 0

(***************************************************************************)
(* C7: the curried and factory forms are equivalent to the direct form:    *)
(* every call expression reaching the same assertion on the same reporter  *)
(* with the same arguments has the same outcome, recorded on that          *)
(* reporter.                                                               *)
(***************************************************************************)
C7_FormsEquivalent ==
    Called =>
        /\ last.out.tb = last.tb
        /\ \A form \in FormsOf(last.op) : OutcomeOfForm(form, last.errs) = last.out

\* Deq(tb)(exp, got) on two equal slices: silent, as Myt{tb}.Deq is
C7_Witness ==
    /\ pc = "returned"
    /\ last.form = "Deq"
    /\ last.tb = "tb2"
    /\ last.exp = SliceVal(<<1, 2>>)
    /\ last.got = SliceVal(<<1, 2>>)
    /\ Count = 0

(***************************************************************************)
(* C8: no assertion helper ever raises a panic: for every expected and     *)
(* actual value of any dynamic type, slices passed to Eq or Neq included,  *)
(* and every cause, the call returns normally.                             *)
(***************************************************************************)
C8_NeverPanics == pc # "panicked"

(***************************************************************************)
(* C9, as claimed: NearFunc(a, a, NaN) is true for any a: when the first   *)
(* two arguments are the same value the result is true regardless of eps.  *)
(***************************************************************************)
C9_SameValueIsNear ==
    (near.done /\ near.a = near.b) => near.result

(***************************************************************************)
(* C9, amended: NearFunc(a, a, eps) is true for any a other than NaN,      *)
(* +Inf and -Inf included, regardless of eps, even when eps is NaN.        *)
(***************************************************************************)
C9_SameNonNaNValueIsNear ==
    (near.done /\ near.a = near.b /\ near.a # NaN) => near.result

\* NearFunc(+Inf, +Inf, NaN) evaluated to true
C9_Witness ==
    /\ near.done
    /\ near.a = PosInf
    /\ near.b = PosInf
    /\ near.eps = NaN
    /\ near.result

(***************************************************************************)
(* C10: NaN is never near anything: NearFunc(a, b, eps) is false whenever  *)
(* a is NaN or b is NaN, for every eps, NearFunc(NaN, NaN, eps) included.  *)
(***************************************************************************)
C10_NaNNeverNear ==
    (near.done /\ (near.a = NaN \/ near.b = NaN)) => ~near.result

\* NearFunc(NaN, NaN, +Inf) evaluated to false
C10_Witness ==
    /\ near.done
    /\ near.a = NaN
    /\ near.b = NaN
    /\ near.eps = PosInf
    /\ ~near.result

C12_InfiniteEpsAlwaysNear ==
    (near.done /\ near.eps = PosInf /\ near.a # NaN /\ near.b # NaN) => near.result

(***************************************************************************)
(* C13: for a != b, NearFunc(a, b, eps) is true if and only if the         *)
(* absolute difference |a - b| is strictly less than eps: a difference     *)
(* equal to eps gives false, any eps <= 0 gives false, the result is       *)
(* symmetric in a and b, and with eps = +Inf any two finite values are     *)
(* near.                                                                   *)
(***************************************************************************)
\* |a - b| < eps over the extended reals: the difference of two finite
\* values is the exact one, a difference with an infinity is infinite, and
\* nothing involving NaN is less than anything
DifferenceLess(a, b, eps) ==
    IF a.k = "NaN" \/ b.k = "NaN" \/ eps.k = "NaN" THEN FALSE
    ELSE IF a.k # "fin" \/ b.k # "fin" THEN FALSE
    ELSE IF eps.k = "+Inf" THEN TRUE
    ELSE IF eps.k = "-Inf" THEN FALSE
    ELSE (IF a.n < b.n THEN b.n - a.n ELSE a.n - b.n) < eps.n

C13_NearIffDifferenceLessThanEps ==
    (near.done /\ ~FEq(near.a, near.b)) =>
        /\ near.result <=> DifferenceLess(near.a, near.b, near.eps)
        /\ near.result = NearFunc(near.b, near.a, near.eps)
        /\ (near.a.k = "fin" /\ near.b.k = "fin" /\ near.eps = PosInf) => near.result

(***************************************************************************)
(* C14: Deq compares structurally: it records 0 messages when the values   *)
(* are deep-equal and the cause is nil; 2 messages when the values are not *)
(* deep-equal, both non-nil and of different dynamic types, with or        *)
(* without a cause; and exactly 1 message in every other case.  For        *)
(* comparable scalar values the count is the one Eq records for the same   *)
(* arguments.                                                              *)
(***************************************************************************)
C14_DeqCounts ==
    (Called /\ last.op = "Deq") =>
        /\ Count =
              (IF DeepEqual(last.exp, last.got) = "true" /\ ~HasCause(last.errs) THEN 0
               ELSE IF /\ DeepEqual(last.exp, last.got) = "false"
                       /\ last.exp # NilVal
                       /\ last.got # NilVal
                       /\ TypeOf(last.exp) # TypeOf(last.got)
                    THEN 2
               ELSE 1)
        /\ ~last.out.panicked
        /\ (Comparable(TypeOf(last.exp)) /\ Comparable(TypeOf(last.got))) =>
               Count = Len(Perform("Myt.Eq", last.tb, last.exp, last.got, last.errs).msgs)

\* Deq on the slices {1, 2} and {2, 2} with no cause: one message
C14_Witness ==
    /\ pc = "returned"
    /\ last.op = "Deq"
    /\ last.exp = SliceVal(<<1, 2>>)
    /\ last.got = SliceVal(<<2, 2>>)
    /\ ~HasCause(last.errs)
    /\ Count = 1

(***************************************************************************)
(* getFuncLine on every call stack: a failing Eq(1, 2), direct or curried, *)
(* called below 0..MaxRecursion frames of a recursive function of this     *)
(* package or of another one                                               *)
(***************************************************************************)
Walks ==
    { [NoWalk EXCEPT !.form = form, !.caller = caller, !.n = n, !.base = base,
                     !.stack = CallStack(form, caller, n, base)] :
        form \in {"direct", "curried"}, caller \in CallerPkgs,
        n \in 0..MaxRecursion, base \in {"test", "go"} }
    \cup
    { [NoWalk EXCEPT !.form = form, !.base = "go",
                     !.stack = CallStack(form, NoPkg, 0, "go")] :
        form \in {"direct", "curried"} }

InitWalk ==
    /\ errCalls = [tb \in TBs |-> 0]
    /\ NearLogic = "NearFunc"
    /\ pc = "idle"
    /\ last = NoCall
    /\ near = NoNear
    /\ walk \in Walks
    /\ held = NoHeld

\* Myt{&TBMock{}}.Eq(1, 2), or ExpEq(1)(2), on the stack of walk: the
\* Errorf call is made with what getFuncLine returns
FailingEq ==
    /\ ~walk.done
    /\ LET out == Perform(IF walk.form = "direct" THEN "Myt.Eq" ELSE "Myt.ExpEq",
                          "tb1", IntVal(1), IntVal(2), << >>)
       IN  /\ walk' = [walk EXCEPT !.done = TRUE,
                                   !.result = getFuncLine(walk.stack),
                                   !.msgs = out.msgs]
           /\ errCalls' = [errCalls EXCEPT ![out.tb] = @ + Len(out.msgs)]
    /\ UNCHANGED <<NearLogic, pc, last, near, held>>

NextWalk == FailingEq

SpecWalk == InitWalk /\ [][NextWalk]_vars

(***************************************************************************)
(* A curried closure kept in a variable: c := ExpEq(tb)(exp) (or ExpDeq,   *)
(* ExpNeq, ExpNear), invoked any number of times, with direct calls on the *)
(* wrappers made in between                                                *)
(***************************************************************************)
\* the values, floats and cause lists of the calls around a kept closure
HeldValues == {IntVal(1), StrVal(3), SliceVal(<<1, 2>>)}

DirectValues == {IntVal(1), StrVal(3)}

HeldFloats == {Fin(0), Fin(1)}

\* the expected values of the direct calls
DirectExp == IntVal(1)

DirectFExp == Fin(0)

HeldEps == {Fin(0), Fin(2)}

HeldErrs == {<< >>, << TestErr >>}

\* TBMock.Errorf once per Errorf of the call, at most once
ReportOncePerCall(calls, out) ==
    [calls EXCEPT ![out.tb] = @ + (IF Len(out.msgs) > 0 THEN 1 ELSE 0)]

\* TBMock.Errorf for every Errorf of the call: m.errCalls++
Report(calls, out) == [calls EXCEPT ![out.tb] = @ + Len(out.msgs)]

\* the closure of ExpNear calling NearFunc whatever NearLogic holds
HeldOutcomeDefaultLogic(c, got, fgot, errs, nl) ==
    IF c.fn = "ExpNear.func1" THEN InvokeNear(c, fgot, errs, "NearFunc")
    ELSE Invoke(c, got, errs)

\* c(got, errs...) for a kept closure c; the closure of ExpNear reads the
\* variable NearLogic when it runs
HeldOutcome(c, got, fgot, errs, nl) ==
    IF c.fn = "ExpNear.func1" THEN InvokeNear(c, fgot, errs, nl)
    ELSE Invoke(c, got, errs)

\* the assertion a closure makes, and the value it captured
OpOf(c) ==
    CASE c.fn = "ExpNear.func1" -> "Near"
      [] c.fn = "ExpNeq.func1" -> "Neq"
      [] c.fn = "expEqDeq.func1" -> IF c.deep THEN "Deq" ELSE "Eq"

CapturedOf(c) ==
    CASE c.fn = "ExpNear.func1" -> NilVal
      [] c.fn = "ExpNeq.func1" -> c.v1
      [] c.fn = "expEqDeq.func1" -> c.exp

\* the direct method of Myt{tb} for an assertion, called on its own
Alone(op, tb, exp, got, fexp, fgot, feps, errs, nl) ==
    CASE op = "Eq" -> Perform("Myt.Eq", tb, exp, got, errs)
      [] op = "Deq" -> Perform("Myt.Deq", tb, exp, got, errs)
      [] op = "Neq" -> Perform("Myt.Neq", tb, exp, got, errs)
      [] op = "Near" -> PerformNear("Myt.Near", tb, fexp, fgot, feps, errs, nl)

\* c := ExpEq(tb)(exp), ExpDeq(tb)(exp) or ExpNeq(tb)(exp)
BuildCurried ==
    /\ pc = "idle"
    /\ held.c = NoClosure
    /\ \E f \in {ExpEq("tb1"), ExpDeq("tb1"), ExpNeq("tb1")}, exp \in HeldValues :
          held' = [held EXCEPT !.c = Call1(f, exp), !.nlBuilt = NearLogic]
    /\ UNCHANGED <<errCalls, NearLogic, pc, last, near, walk>>

\* c := ExpNear(tb)(exp, eps)
BuildExpNear ==
    /\ pc = "idle"
    /\ held.c = NoClosure
    /\ \E exp \in HeldFloats, eps \in HeldEps :
          held' = [held EXCEPT !.c = Call2Floats(ExpNear("tb1"), exp, eps),
                               !.nlBuilt = NearLogic]
    /\ UNCHANGED <<errCalls, NearLogic, pc, last, near, walk>>

\* c(got, errs...)
InvokeHeld ==
    /\ pc = "idle"
    /\ held.c # NoClosure
    /\ held.n < MaxCalls
    /\ \E got \in HeldValues \cup {NilVal}, fgot \in HeldFloats, errs \in HeldErrs :
          /\ IF held.c.fn = "ExpNear.func1"
             THEN got = NilVal
             ELSE got \in HeldValues /\ fgot = Fin(0)
          /\ LET c == held.c
                 near1 == c.fn = "ExpNear.func1"
                 out == HeldOutcome(c, got, fgot, errs, NearLogic)
                 alone == Alone(OpOf(c), c.m.TB, CapturedOf(c), got,
                                IF near1 THEN c.exp ELSE Fin(0), fgot,
                                IF near1 THEN c.eps ELSE Fin(0), errs, NearLogic)
             IN  /\ errCalls' = Report(errCalls, out)
                 /\ pc' = IF out.panicked THEN "panicked" ELSE "returned"
                 /\ last' = [NoCall EXCEPT !.form = "held", !.op = OpOf(c),
                                           !.tb = c.m.TB, !.exp = CapturedOf(c),
                                           !.got = got,
                                           !.fexp = IF near1 THEN c.exp ELSE Fin(0),
                                           !.fgot = fgot,
                                           !.feps = IF near1 THEN c.eps ELSE Fin(0),
                                           !.errs = errs, !.out = out]
                 /\ held' = [held EXCEPT
                        !.n = @ + 1,
                        !.prev = held.cur,
                        !.cur = [valid |-> TRUE, got |-> got, fgot |-> fgot,
                                 errs |-> errs, nl |-> NearLogic, out |-> out],
                        !.isolated = [@ EXCEPT ![c.m.TB] = @ + Len(alone.msgs)]]
    /\ UNCHANGED <<NearLogic, near, walk>>

\* Myt{tb}.Eq, Deq or Neq (exp, got, errs...) between the invocations
DirectCall ==
    /\ pc = "idle"
    /\ held.n < MaxCalls
    /\ \E tb \in TBs, op \in {"Eq", "Deq", "Neq"}, exp \in {DirectExp},
          got \in DirectValues, errs \in HeldErrs :
          LET out == Alone(op, tb, exp, got, Fin(0), Fin(0), Fin(0), errs, NearLogic)
          IN  /\ errCalls' = Report(errCalls, out)
              /\ pc' = IF out.panicked THEN "panicked" ELSE "returned"
              /\ last' = [NoCall EXCEPT !.form = "Myt", !.op = op, !.tb = tb,
                                        !.exp = exp, !.got = got, !.errs = errs,
                                        !.out = out]
              /\ held' = [held EXCEPT
                        !.n = @ + 1,
                        !.isolated = [@ EXCEPT ![tb] = @ + Len(out.msgs)]]
    /\ UNCHANGED <<NearLogic, near, walk>>

\* Myt{tb}.Near(exp, got, eps, errs...) between the invocations
DirectNear ==
    /\ pc = "idle"
    /\ held.n < MaxCalls
    /\ \E tb \in TBs, exp \in {DirectFExp}, got \in HeldFloats,
          eps \in HeldEps, errs \in HeldErrs :
          LET out == Alone("Near", tb, NilVal, NilVal, exp, got, eps, errs, NearLogic)
          IN  /\ errCalls' = Report(errCalls, out)
              /\ pc' = IF out.panicked THEN "panicked" ELSE "returned"
              /\ last' = [NoCall EXCEPT !.form = "Myt", !.op = "Near", !.tb = tb,
                                        !.fexp = exp, !.fgot = got, !.feps = eps,
                                        !.errs = errs, !.out = out]
              /\ held' = [held EXCEPT
                        !.n = @ + 1,
                        !.isolated = [@ EXCEPT ![tb] = @ + Len(out.msgs)]]
    /\ UNCHANGED <<NearLogic, near, walk>>

\* sequences of assertion calls alone
NextReuse ==
    \/ BuildCurried
    \/ BuildExpNear
    \/ InvokeHeld
    \/ DirectCall
    \/ DirectNear
    \/ Continue

SpecReuse == Init /\ [][NextReuse]_vars

\* the same with the caller assigning NearLogic at any point
NextSwap ==
    \/ BuildCurried
    \/ BuildExpNear
    \/ InvokeHeld
    \/ DirectCall
    \/ DirectNear
    \/ Continue
    \/ SetNearLogic

SpecSwap == Init /\ [][NextSwap]_vars

(***************************************************************************)
(* Vocabulary of the claims about getFuncLine                              *)
(***************************************************************************)
\* the import path of the package a function is declared in
PackageOf(function) == SubSeq(function, 1, Len(function) - 2)

\* the frame's function is declared in this library's package
IsLibraryFrame(fr) == PackageOf(fr.function) = PkgMighty

\* the frames captured for getFuncLine: from getFuncLine itself outward,
\* MaxCallers at most
Captured ==
    LET from == SubSeq(walk.stack, 2, Len(walk.stack))
    IN  IF Len(from) <= MaxCallers THEN from ELSE SubSeq(from, 1, MaxCallers)

\* function, file name and line of a frame, the line as the frame has it
Identity(fr) == [function |-> fr.function, file |-> fr.file[2], line |-> fr.line]

NonLibrary == {i \in 1..Len(Captured) : ~IsLibraryFrame(Captured[i])}

FirstNonLibrary == CHOOSE i \in NonLibrary : \A j \in NonLibrary : i <= j

Sentinel == [function |-> << "<unknown_func>" >>, file |-> "<unknown_file>", line |-> 0 - 1]

\* the failing call made its Errorf call
FailureRecorded == Len(walk.msgs) = 1 /\ errCalls["tb1"] = 1

\* the stack of TestGetFileLineUnknown: f(0) .. f(TestDepth), declared in
\* this package, below the test function run by the testing package
RecursionOfTest ==
    /\ walk.form = "direct"
    /\ walk.caller = PkgMighty
    /\ walk.n = TestDepth + 1
    /\ walk.base = "test"

\* C15 (as stated): from the bottom of the recursion of
\* TestGetFileLineUnknown the walker returns a non-sentinel identity
C15_DeepRecursionNonSentinel ==
    (walk.done /\ RecursionOfTest) =>
        /\ walk.result # Sentinel
        /\ walk.result.line # 0 - 1

\* C15 (amended): from the bottom of the recursion of
\* TestGetFileLineUnknown every captured frame is of this package; the
\* walker returns the sentinel identity with line -1 and the failure is
\* recorded all the same
C15_DeepRecursionSentinel ==
    (walk.done /\ RecursionOfTest) =>
        /\ \A i \in 1..Len(Captured) : IsLibraryFrame(Captured[i])
        /\ Len(Captured) = MaxCallers
        /\ walk.result = Sentinel
        /\ FailureRecorded

C15_Witness ==
    /\ walk.done
    /\ RecursionOfTest
    /\ Len(walk.stack) > MaxCallers + 1
    /\ walk.result.line = 0 - 1

\* C17: a failing assertion called from a package other than the library
\* reports the innermost frame not of the library, i.e. the function that
\* called the assertion, with that frame's line unchanged, however many
\* frames of the caller's recursion lie outward of it
C17_InnermostCallerLineAsIs ==
    (walk.done /\ walk.caller \in CallerPkgs \ {PkgMighty}) =>
        /\ PackageOf(walk.result.function) = walk.caller
        /\ walk.result = Identity(Captured[FirstNonLibrary])
        /\ walk.result.line = 186

\* C18: the sentinel is returned exactly when no captured frame is a
\* non-library frame, otherwise the first non-library captured frame is,
\* the last captured one included; the failure is recorded in either case
C18_SentinelIffNoNonLibraryFrame ==
    walk.done =>
        /\ (walk.result = Sentinel) <=> (NonLibrary = {})
        /\ (NonLibrary # {}) => walk.result = Identity(Captured[FirstNonLibrary])
        /\ FailureRecorded

\* the captured frame the walker returned (the first with the returned
\* identity), or the number of captured frames when it returned the sentinel
ReturnedIndex ==
    IF walk.result = Sentinel THEN Len(Captured)
    ELSE CHOOSE i \in 1..Len(Captured) :
            /\ Identity(Captured[i]) = walk.result
            /\ \A j \in 1..(i - 1) : Identity(Captured[j]) # walk.result

\* C19: among the frames the walker examines (all captured ones but the
\* last) it skips a frame if and only if the frame's function is declared
\* in the library's package; a frame of a sibling package or a sub-package
\* is returned as the caller
C19_LibraryFrameIffDeclaredInPackage ==
    walk.done =>
        /\ \A i \in 1..(Len(Captured) - 1) :
              /\ i < ReturnedIndex => IsLibraryFrame(Captured[i])
              /\ (i = ReturnedIndex /\ walk.result # Sentinel) => ~IsLibraryFrame(Captured[i])
        /\ walk.caller \in {PkgSibling, PkgSub} =>
              PackageOf(walk.result.function) = walk.caller

(***************************************************************************)
(* Vocabulary of the claims about kept closures                            *)
(***************************************************************************)
\* the last call was an invocation of the kept closure
HeldInvoked == Called /\ last.form = "held"

\* the last two invocations of the kept closure had the same arguments
SameArguments ==
    /\ held.cur.valid
    /\ held.prev.valid
    /\ held.cur.got = held.prev.got
    /\ held.cur.fgot = held.prev.fgot
    /\ held.cur.errs = held.prev.errs

\* the count of the last call when it is made on its own, on reporter tb,
\* with NearLogic holding nl
CountAlone(tb, nl) ==
    Len(Alone(last.op, tb, last.exp, last.got, last.fexp, last.fgot, last.feps,
              last.errs, nl).msgs)

\* C16 (as stated): the count of a call is determined by its arguments and
\* the values its closure captured alone: two invocations of one closure
\* with the same arguments record the same count, and nothing that happens
\* between building the closure and invoking it changes the count
C16_CountFromArgumentsAlone ==
    /\ (HeldInvoked /\ SameArguments) =>
          Len(held.cur.out.msgs) = Len(held.prev.out.msgs)
    /\ HeldInvoked => Count = CountAlone(last.tb, held.nlBuilt)

\* C16 (amended): the count of a call is determined by its arguments, the
\* values its closure captured and, for Near and ExpNear, the function the
\* package variable NearLogic holds when the call runs; it does not depend
\* on the reporter, on earlier calls or on the other wrapper, and for Eq,
\* Deq and Neq not on NearLogic either
C16_CountFromArgumentsAndNearLogic ==
    /\ Called => \A tb \in TBs : Count = CountAlone(tb, NearLogic)
    /\ (Called /\ last.op # "Near") =>
          \A nl \in NearLogics : Count = CountAlone(last.tb, nl)
    /\ (HeldInvoked /\ SameArguments /\ held.cur.nl = held.prev.nl) =>
          held.cur.out = held.prev.out
    /\ \A tb \in TBs : errCalls[tb] = held.isolated[tb]

\* a closure of ExpNear built under one NearLogic and invoked under
\* another, recording a count it would not have recorded under the first
C16_Witness ==
    /\ HeldInvoked
    /\ last.op = "Near"
    /\ NearLogic # held.nlBuilt
    /\ Count # CountAlone(last.tb, held.nlBuilt)
    /\ SameArguments
    /\ held.cur.out # held.prev.out

====
